---- MODULE Spec2Model ----
(***************************************************************************)
(* FuzzyMultiDict (src/fuzzy_multi_dict/fuzzy_multi_dict.py): a prefix     *)
(* tree keyed by strings with exact and approximate lookup.                *)
(*                                                                         *)
(* Strings are sequences of symbols.  A trie node is identified by the     *)
(* sequence of edge symbols from the root; the `path` string the search    *)
(* carries next to a node is kept separately, as the code does.  Numbers   *)
(* in [0, 1] (prices, probabilities, distances, scores) are fixed-point    *)
(* integers in units of 1/Scale; max_corrections_value is an exact         *)
(* fraction [num, den].                                                    *)
(***************************************************************************)
EXTENDS Integers, Sequences, FiniteSets, TLC

VARIABLES prefix_tree, update_value, max_corrections_value,
          correction_price, symbol_probability, default_symbol_probability,
          symbols_distance, default_symbols_distance,
          history, lookups, call, ret

vars == <<prefix_tree, update_value, max_corrections_value,
          correction_price, symbol_probability, default_symbol_probability,
          symbols_distance, default_symbols_distance,
          history, lookups, call, ret>>

config == <<update_value, correction_price, symbol_probability,
            default_symbol_probability, symbols_distance,
            default_symbols_distance>>

----------------------------------------------------------------------------
(* Bounds of the model *)

\* symbols of the alphabet, in lexicographic order
Alphabet == <<"a", "b">>

\* longest key / query of the small state machine
MaxKeyLen == 2

\* longest key / query of the lookup specification
MaxFuzzyLen == 4

\* calls that change the dictionary (insertions, budget settings) in one
\* behaviour
MaxCalls == 2

\* insertions in one behaviour of the insertion specification
MaxInsertCalls == 3

\* longest key, number of keys and largest limit of the leaf enumeration
\* specification
MaxLeafKeyLen == 3
MaxLeafKeys == 3
MaxLimit == 4

\* largest topn passed to get / search
MaxTopn == 2

\* lookups in a row between two calls that change the dictionary
MaxLookupRun == 1

\* fixed-point unit: the integer n stands for n / Scale
Scale == 1000

Symbols == {Alphabet[i] : i \in 1..Len(Alphabet)}

Ord(c) == CHOOSE i \in 1..Len(Alphabet) : Alphabet[i] = c

RECURSIVE StringsOfLen(_)
StringsOfLen(n) ==
    IF n = 0 THEN {<<>>}
    ELSE {Append(s, c) : s \in StringsOfLen(n - 1), c \in Symbols}

StringsUpTo(n) == UNION {StringsOfLen(i) : i \in 0..n}

\* Python's None, and the values a caller stores ("" is falsy)
None == "<None>"
Values == {"", "x"}
Truthy(v) == v # None /\ v # ""

\* a key or query that is not a str
NotAString == <<"<int>">>
IsStr(s) == s # NotAString

----------------------------------------------------------------------------
(* Sequence helpers *)

Take(s, n) == SubSeq(s, 1, n)
Drop(s, n) == SubSeq(s, n + 1, Len(s))
\* Python slice s[i:j] with 0-based i, j
Slice(s, i, j) == SubSeq(s, i + 1, j)
\* Python s[i] with 0-based i
At(s, i) == s[i + 1]

RECURSIVE InsertSorted(_, _, _)
InsertSorted(s, x, key) ==
    IF s = <<>> THEN <<x>>
    ELSE IF key[x] < key[Head(s)] THEN <<x>> \o s
    ELSE <<Head(s)>> \o InsertSorted(Tail(s), x, key)

RECURSIVE SortedBy(_, _)
\* Python's sorted(s, key=...): stable, ascending in key
SortedBy(s, key) ==
    IF s = <<>> THEN <<>>
    ELSE InsertSorted(SortedBy(Take(s, Len(s) - 1), key), s[Len(s)], key)

Range(s) == {s[i] : i \in 1..Len(s)}

----------------------------------------------------------------------------
(* Cost model *)

RECURSIVE SqrtSearch(_, _, _)
SqrtSearch(n, lo, hi) ==
    IF lo >= hi THEN lo
    ELSE LET mid == (lo + hi + 1) \div 2
         IN  IF mid * mid <= n THEN SqrtSearch(n, mid, hi)
             ELSE SqrtSearch(n, lo, mid - 1)

\* (p * f) ** 0.5 for fixed-point p, f: floor(sqrt(p * f)) in units of 1/Scale
Root(p, f) == SqrtSearch(p * f, 0, Scale)

CorrectionPrice(t, d, s, i) ==
    [transposition |-> t, deletion |-> d, substitution |-> s, insertion |-> i]

get_symbols_distance(dist, dflt, x, y) ==
    IF x = y THEN 0
    ELSE IF <<x, y>> \in DOMAIN dist THEN dist[<<x, y>>] ELSE dflt

get_symbol_probability(prob, dflt, c) ==
    IF c \in DOMAIN prob THEN prob[c] ELSE dflt

\* the cost model a lookup reads, as one record
CostModel ==
    [price |-> correction_price,
     prob |-> symbol_probability, dprob |-> default_symbol_probability,
     dist |-> symbols_distance, ddist |-> default_symbols_distance]

Distance(cm, x, y) == get_symbols_distance(cm.dist, cm.ddist, x, y)
Probability(cm, c) == get_symbol_probability(cm.prob, cm.dprob, c)

\* variant: no upper limit
InRangeFromZero(x) == 0 <= x

\* 0.0 <= x <= 1.0
InRange(x) == 0 <= x /\ x <= Scale

\* isinstance(arg, CorrectionPrice); any other object is [class, value]
IsCorrectionPrice(arg) == arg.class = "CorrectionPrice"

\* outcome of set_correction_price(arg) on the installed price:
\* [raised, price]
set_correction_price(installed, arg) ==
    IF ~IsCorrectionPrice(arg)
    THEN [raised |-> "TypeError", price |-> installed]
    ELSE IF ~(/\ InRange(arg.price.deletion)
              /\ InRange(arg.price.substitution)
              /\ InRange(arg.price.transposition)
              /\ InRange(arg.price.insertion))
         THEN [raised |-> "ValueError", price |-> installed]
         ELSE [raised |-> None, price |-> arg.price]

\* lines 175-183: one item of the probability table
ValidProbabilityItem(c, prob) == InRange(prob) /\ IsStr(c) /\ Len(c) = 1

\* lines 185-197: one item of the distance table; a key that does not unpack
\* into (x, y) raises ValueError as well
ValidDistanceItem(key, dist) ==
    /\ Len(key) = 2
    /\ InRange(dist)
    /\ IsStr(key[1]) /\ Len(key[1]) = 1
    /\ IsStr(key[2]) /\ Len(key[2]) = 1

\* lines 203-205: the probability table keyed by symbol
InstalledProbability(sp) ==
    [c \in {k[1] : k \in DOMAIN sp} |-> sp[<<c>>]]

\* lines 206-211: the distance table keyed by pairs of symbols, each given
\* pair mirrored unless the mirrored pair is given too
InstalledDistance(sd) ==
    LET given == [q \in {<<k[1][1], k[2][1]>> : k \in DOMAIN sd}
                    |-> sd[<<<<q[1]>>, <<q[2]>>>>]]
        mirrored == {<<q[2], q[1]>> : q \in DOMAIN given} \ DOMAIN given
    IN  given @@ [q \in mirrored |-> given[<<q[2], q[1]>>]]

\* outcome of set_symbols_probability_distances on the installed settings
\* old = [prob, dprob, dist, ddist]: [raised, prob, dprob, dist, ddist]
set_symbols_probability_distances(old, sp, dsp, sd, dsd) ==
    IF \/ ~InRange(dsp)
       \/ ~InRange(dsd)
       \/ \E c \in DOMAIN sp : ~ValidProbabilityItem(c, sp[c])
       \/ \E k \in DOMAIN sd : ~ValidDistanceItem(k, sd[k])
    THEN [raised |-> "ValueError", prob |-> old.prob, dprob |-> old.dprob,
          dist |-> old.dist, ddist |-> old.ddist]
    ELSE [raised |-> None, prob |-> InstalledProbability(sp), dprob |-> dsp,
          dist |-> InstalledDistance(sd), ddist |-> dsd]

\* variant: a correction count exactly on the budget is refused
WithinBudgetStrict(n, len, mcv) == n * mcv.den < mcv.num * len

\* variant: the correction about to be made is not counted
WithinBudgetUncounted(n, len, mcv) == (n - 1) * mcv.den <= mcv.num * len

\* (len(correction) + 1) / len(query) <= max_corrections_value
WithinBudget(n, len, mcv) == n * mcv.den <= mcv.num * len

Frac(n, d) == [num |-> n, den |-> d]
ValidBudget(v) == 0 <= v.num /\ v.num <= v.den

----------------------------------------------------------------------------
(* Trie store *)

EmptyTree == (<<>> :> [children |-> <<>>, value |-> None])

HasChild(tree, node, c) == Append(node, c) \in DOMAIN tree

RECURSIVE Walk(_, _, _)
\* __setitem__ lines 324-329: create the missing nodes along key
Walk(tree, node, rest) ==
    IF rest = <<>> THEN tree
    ELSE LET c == Head(rest)
             child == Append(node, c)
             t == IF HasChild(tree, node, c) THEN tree
                  ELSE (child :> [children |-> <<>>, value |-> None]) @@
                       [tree EXCEPT ![node].children = Append(@, c)]
         IN  Walk(t, child, Tail(rest))

\* the merge callbacks a caller may install
Callbacks == {"replace", "first_only", "reject_empty"}

\* the same, with a callback that keeps the value already stored
InsertCallbacks == Callbacks \cup {"keep_first"}

\* outcome of update_value(x, y): [raised, value]
UpdateValue(f, x, y) ==
    CASE f = "replace" -> [raised |-> FALSE, value |-> y]
      [] f = "first_only" ->
            IF x = None THEN [raised |-> FALSE, value |-> y]
            ELSE [raised |-> TRUE, value |-> None]
      [] f = "reject_empty" ->
            IF y = "" THEN [raised |-> TRUE, value |-> None]
            ELSE [raised |-> FALSE, value |-> y]
      [] f = "keep_first" ->
            [raised |-> FALSE, value |-> IF x = None THEN y ELSE x]

\* __setitem__ with the arguments of the callback exchanged
setitemSwapped(tree, f, key, value) ==
    LET walked == Walk(tree, <<>>, key)
        u == UpdateValue(f, value, walked[key].value)
    IN  [raised |-> u.raised,
         tree |-> IF u.raised THEN walked
                  ELSE [walked EXCEPT ![key].value = u.value]]

\* FuzzyMultiDict.__setitem__ for a str key: the nodes are created first, then
\* the callback runs; [raised, tree]
setitem(tree, f, key, value) ==
    LET walked == Walk(tree, <<>>, key)
        u == UpdateValue(f, walked[key].value, value)
    IN  [raised |-> u.raised,
         tree |-> IF u.raised THEN walked
                  ELSE [walked EXCEPT ![key].value = u.value]]

StoredKeys(tree) == {n \in DOMAIN tree : tree[n].value # None}

----------------------------------------------------------------------------
(* Exact walk and leaf enumeration *)

\* Python None for an optional int (topn, topn_leaves)
NoneInt == -1
TruthyInt(n) == n # NoneInt /\ n # 0

RECURSIVE apply_string(_, _, _, _)
\* longest walk from node along s[position:]; the node reached and how far
apply_string(tree, node, s, position) ==
    IF position < Len(s) /\ HasChild(tree, node, At(s, position))
    THEN apply_string(tree, Append(node, At(s, position)), s, position + 1)
    ELSE [node |-> node, position |-> position]

\* the children in the order of their creation
ChildrenAsCreated(tree, node) == tree[node].children

SortedChildren(tree, node) ==
    SortedBy(tree[node].children, [c \in Symbols |-> Ord(c)])

RECURSIVE Compress(_, _, _)
\* lines 1040-1058: descend through valueless single-child nodes
Compress(tree, node, path) ==
    IF tree[node].value = None /\ Len(tree[node].children) = 1
    THEN LET x == tree[node].children[1]
         IN  Compress(tree, Append(node, x), Append(path, x))
    ELSE [node |-> node, path |-> path]

RECURSIVE get_node_leaves(_, _, _, _)
RECURSIVE LeavesLoop(_, _, _, _, _, _)
\* the for loop of lines 1037-1060 over the remaining children xs, with the
\* local counter topn and the leaves collected so far
LeavesLoop(tree, node, path, xs, topn, leaves) ==
    IF xs = <<>> THEN leaves
    ELSE LET x == Head(xs)
             c == Compress(tree, Append(node, x), <<x>>)
             valued == tree[c.node].value # None
             found == IF valued
                      THEN Append(leaves, [key |-> path \o c.path,
                                           value |-> tree[c.node].value])
                      ELSE leaves
             left == IF valued THEN topn - 1 ELSE topn
         IN  IF valued /\ left <= 0 THEN found
             ELSE LeavesLoop(tree, node, path, Tail(xs), left,
                     found \o get_node_leaves(tree, c.node, path \o c.path, left))

get_node_leaves(tree, node, path, topn) ==
    IF topn <= 0 THEN <<>>
    ELSE LeavesLoop(tree, node, path, SortedChildren(tree, node), topn, <<>>)

----------------------------------------------------------------------------
(* Approximate match engine *)

Correction(kind, symbols, score, position) ==
    [correction |-> kind, symbols |-> symbols, score |-> score,
     position |-> position]

\* variant: a row is queued whatever the memo table holds
EnqueueUnchecked(acc, position, path, node, correction) ==
    [rows |-> Append(acc.rows,
                [position |-> position, path |-> path, node |-> node,
                 correction |-> correction]),
     processed |-> (<<position, path>> :> Len(correction)) @@ acc.processed]

\* lines 725-727 and the like: append the row unless the memo table holds
\* (position, path) with no more corrections
\* variant: a row is queued again when it has more corrections than the memo
EnqueueFlipped(acc, position, path, node, correction) ==
    LET k == <<position, path>>
    IN  IF k \notin DOMAIN acc.processed \/ acc.processed[k] < Len(correction)
        THEN [rows |-> Append(acc.rows,
                        [position |-> position, path |-> path, node |-> node,
                         correction |-> correction]),
              processed |-> (k :> Len(correction)) @@ acc.processed]
        ELSE acc

Enqueue(acc, position, path, node, correction) ==
    LET k == <<position, path>>
    IN  IF k \notin DOMAIN acc.processed \/ acc.processed[k] > Len(correction)
        THEN [rows |-> Append(acc.rows,
                        [position |-> position, path |-> path, node |-> node,
                         correction |-> correction]),
              processed |-> (k :> Len(correction)) @@ acc.processed]
        ELSE acc

apply_as_is(acc, tree, node, path, key, position, correction) ==
    IF position + 1 < Len(key) /\ Len(tree[node].children) > 0
       /\ HasChild(tree, node, At(key, position))
    THEN LET a1 == Enqueue(acc, position + 1, Append(path, At(key, position)),
                           Append(node, At(key, position)), correction)
             w == apply_string(tree, node, key, position)
         IN  Enqueue(a1, w.position,
                     path \o Slice(key, position, w.position), w.node, correction)
    ELSE acc

\* lines 784-790: the path of the row after the free walk
TranspositionPath(path, query, position, end) ==
    path \o path \o <<At(query, position + 1), At(query, position)>>
         \o Slice(query, position + 2, end)

apply_transposition(acc, tree, cm, node, path, query, position, correction) ==
    IF position + 1 >= Len(query) THEN acc
    ELSE LET c0 == At(query, position)
             c1 == At(query, position + 1)
         IN  IF HasChild(tree, node, c1) /\ HasChild(tree, Append(node, c1), c0)
             THEN LET n2 == node \o <<c1, c0>>
                      corr == Append(correction,
                                Correction("transposition", <<c0, c1>>,
                                    Root(cm.price.transposition, Distance(cm, c0, c1)),
                                    position))
                      a1 == Enqueue(acc, position + 2, path \o <<c1, c0>>, n2, corr)
                      w == apply_string(tree, n2, query, position + 2)
                  IN  Enqueue(a1, w.position,
                              TranspositionPath(path, query, position, w.position),
                              w.node, corr)
             ELSE acc

RECURSIVE InsertionLoop(_, _, _, _, _, _, _, _, _)
InsertionLoop(acc, tree, cm, node, path, query, position, correction, cs) ==
    IF cs = <<>> THEN acc
    ELSE LET c == Head(cs)
             corr == Append(correction,
                       Correction("insertion", <<c>>,
                           Root(cm.price.insertion, Scale - Probability(cm, c)),
                           position))
             a1 == Enqueue(acc, position, Append(path, c), Append(node, c), corr)
             w == apply_string(tree, Append(node, c), query, position)
             a2 == Enqueue(a1, w.position,
                           Append(path, c) \o Slice(query, position, w.position),
                           w.node, corr)
         IN  InsertionLoop(a2, tree, cm, node, path, query, position, correction,
                           Tail(cs))

apply_insertion(acc, tree, cm, node, path, query, position, correction) ==
    InsertionLoop(acc, tree, cm, node, path, query, position, correction,
        SortedBy(tree[node].children, [c \in Symbols |-> 0 - Probability(cm, c)]))

apply_deletion(acc, tree, cm, node, path, query, position, correction) ==
    LET c == At(query, position)
        corr == Append(correction,
                  Correction("deletion", <<c>>,
                      Root(cm.price.deletion, Scale - Probability(cm, c)),
                      position))
        a1 == Enqueue(acc, position + 1, path, node, corr)
        w == apply_string(tree, node, query, position + 1)
    IN  Enqueue(a1, w.position, path \o Slice(query, position + 1, w.position),
                w.node, corr)

RECURSIVE SubstitutionLoop(_, _, _, _, _, _, _, _, _)
SubstitutionLoop(acc, tree, cm, node, path, query, position, correction, cs) ==
    IF cs = <<>> THEN acc
    ELSE LET c == Head(cs)
             q == At(query, position)
             corr == Append(correction,
                       Correction("substitution", <<q, c>>,
                           Root(cm.price.substitution, Distance(cm, q, c)),
                           position))
             a1 == Enqueue(acc, position + 1, Append(path, c), Append(node, c), corr)
             w == apply_string(tree, Append(node, c), query, position + 1)
             a2 == Enqueue(a1, w.position,
                           Append(path, c) \o Slice(query, position + 1, w.position),
                           w.node, corr)
         IN  SubstitutionLoop(IF c = q THEN acc ELSE a2, tree, cm, node, path,
                              query, position, correction, Tail(cs))

apply_substitution(acc, tree, cm, node, path, query, position, correction) ==
    SubstitutionLoop(acc, tree, cm, node, path, query, position, correction,
        SortedBy(SortedChildren(tree, node),
                 [c \in Symbols |-> Distance(cm, c, At(query, position))]))

----------------------------------------------------------------------------
(* Result table, terminal check and the wave loop *)

\* the result dict keeps insertion order: a sequence of entries, one per key
ResultIndex(result, key) ==
    IF \E i \in 1..Len(result) : result[i].key = key
    THEN CHOOSE i \in 1..Len(result) : result[i].key = key
    ELSE 0

\* result[key] = entry
ResultPut(result, key, entry) ==
    LET i == ResultIndex(result, key)
    IN  IF i = 0 THEN Append(result, entry) ELSE [result EXCEPT ![i] = entry]

Entry(key, value, correction, leaves) ==
    [key |-> key, value |-> value, correction |-> correction, leaves |-> leaves]

\* __check_value when position = len(query): the row to store under path
check_value(tree, node, path, correction, result, topn_leaves) ==
    LET i == ResultIndex(result, path)
        take == tree[node].value # None
                /\ (i = 0 \/ Len(result[i].correction) > Len(correction))
    IN  Entry(path,
              IF take THEN tree[node].value ELSE None,
              correction,
              IF TruthyInt(topn_leaves)
              THEN get_node_leaves(tree, node, path, topn_leaves)
              ELSE <<>>)

\* lines 561-637: one row of a wave.  st = [rows, processed, result, raised]
ProcessRow(ctx, st, row) ==
    LET tree == ctx.tree
        query == ctx.query
        position == row.position
        result == IF position = Len(query)
                  THEN ResultPut(st.result, row.path,
                           check_value(tree, row.node, row.path, row.correction,
                                       st.result, ctx.topn_leaves))
                  ELSE st.result
        a0 == apply_as_is([rows |-> st.rows, processed |-> st.processed],
                          tree, row.node, row.path, query, position, row.correction)
    IN  IF Len(query) = 0
        THEN [rows |-> a0.rows, processed |-> a0.processed, result |-> result,
              raised |-> TRUE]
        ELSE
        LET ok == WithinBudget(Len(row.correction) + 1, Len(query), ctx.mcv)
            a1 == IF ok /\ ((TruthyInt(ctx.topn_leaves) /\ position < Len(query))
                            \/ ctx.topn_leaves = NoneInt)
                  THEN apply_insertion(a0, tree, ctx.cm, row.node, row.path, query,
                                       position, row.correction)
                  ELSE a0
            a2 == IF position < Len(query) /\ ok
                  THEN apply_deletion(
                          apply_substitution(a1, tree, ctx.cm, row.node, row.path,
                                             query, position, row.correction),
                          tree, ctx.cm, row.node, row.path, query, position,
                          row.correction)
                  ELSE a1
            a3 == IF position + 1 < Len(query)
                     /\ At(query, position) # At(query, position + 1) /\ ok
                  THEN apply_transposition(a2, tree, ctx.cm, row.node, row.path,
                                           query, position, row.correction)
                  ELSE a2
        IN  [rows |-> a3.rows, processed |-> a3.processed, result |-> result,
             raised |-> FALSE]

RECURSIVE ProcessRows(_, _, _)
ProcessRows(ctx, st, rows) ==
    IF rows = <<>> \/ st.raised THEN st
    ELSE ProcessRows(ctx, ProcessRow(ctx, st, Head(rows)), Tail(rows))

RECURSIVE WaveLoop(_, _, _, _)
\* the while loop of lines 557-642; [raised, result]
WaveLoop(ctx, rows, processed, result) ==
    LET st == ProcessRows(ctx, [rows |-> <<>>, processed |-> processed,
                                result |-> result, raised |-> FALSE], rows)
    IN  IF st.raised THEN [raised |-> TRUE, result |-> <<>>]
        ELSE IF st.rows = <<>> THEN [raised |-> FALSE, result |-> st.result]
        ELSE WaveLoop(ctx, st.rows, st.processed, st.result)

RECURSIVE SumScores(_)
get_total_corrections_score(corrections) == SumScores(corrections)
SumScores(cs) == IF cs = <<>> THEN 0 ELSE Head(cs).score + SumScores(Tail(cs))

\* an insertion that ignores the scores
InsertEntryFront(s, e) == <<e>> \o s

RECURSIVE SortEntries(_)
RECURSIVE InsertEntry(_, _)
InsertEntry(s, e) ==
    IF s = <<>> THEN <<e>>
    ELSE IF get_total_corrections_score(e.correction)
            < get_total_corrections_score(Head(s).correction)
         THEN <<e>> \o s
         ELSE <<Head(s)>> \o InsertEntry(Tail(s), e)
\* sorted(result.values(), key=total score): stable
SortEntries(s) ==
    IF s = <<>> THEN <<>>
    ELSE InsertEntry(SortEntries(Take(s, Len(s) - 1)), s[Len(s)])

prepare_result(result, topn, topn_leaves) ==
    LET kept == IF TruthyInt(topn_leaves) THEN result
                ELSE SelectSeq(result, LAMBDA e : e.value # None)
        sorted == SortEntries(kept)
    IN  IF TruthyInt(topn) /\ topn < Len(sorted) THEN Take(sorted, topn)
        ELSE sorted

Ok(list) == [status |-> "ok", value |-> None, list |-> list]
Raise(e) == [status |-> e, value |-> None, list |-> <<>>]

\* FuzzyMultiDict.__get
Lookup(tree, cm, mcv, query, topn, topn_leaves) ==
    LET w == apply_string(tree, <<>>, query, 0)
        node == w.node
    IN  IF w.position = Len(query)
           /\ (tree[node].value # None \/ TruthyInt(topn_leaves))
        THEN Ok(prepare_result(
                 <<Entry(query,
                         IF Truthy(tree[node].value) THEN tree[node].value ELSE None,
                         <<>>,
                         IF TruthyInt(topn_leaves)
                         THEN get_node_leaves(tree, node, query, topn_leaves)
                         ELSE <<>>)>>,
                 topn, topn_leaves))
        ELSE
        LET k1 == <<w.position, Take(query, w.position)>>
            k2 == <<0, <<>>>>
            rows == <<[position |-> w.position, path |-> Take(query, w.position),
                       node |-> node, correction |-> <<>>],
                      [position |-> 0, path |-> <<>>, node |-> <<>>,
                       correction |-> <<>>]>>
            r == WaveLoop([tree |-> tree, cm |-> cm, mcv |-> mcv, query |-> query,
                           topn_leaves |-> topn_leaves],
                          rows, (k1 :> 0) @@ (k2 :> 0), <<>>)
        IN  IF r.raised THEN Raise("ZeroDivisionError")
            ELSE Ok(prepare_result(r.result, topn, topn_leaves))

\* FuzzyMultiDict.get
get(tree, cm, mcv, query, topn) == Lookup(tree, cm, mcv, query, topn, NoneInt)

RECURSIVE DirectLoop(_, _, _)
\* lines 455-471: the direct matches; st = [top, keys, done]
DirectLoop(items, topn, st) ==
    IF items = <<>> \/ st.done THEN st
    ELSE LET item == Head(items)
         IN  IF item.value = None \/ item.key \in st.keys
             THEN DirectLoop(Tail(items), topn, st)
             ELSE LET top == Append(st.top,
                                [key |-> item.key, value |-> item.value,
                                 correction |-> item.correction, is_leaf |-> FALSE])
                  IN  DirectLoop(Tail(items), topn,
                          [top |-> top, keys |-> st.keys \cup {item.key},
                           done |-> Len(top) >= topn])

RECURSIVE LeafItems(_, _, _, _)
\* lines 478-494: the leaves of one item
LeafItems(leaves, correction, topn, st) ==
    IF leaves = <<>> \/ st.done THEN st
    ELSE LET leaf == Head(leaves)
         IN  IF leaf.key \in st.keys
             THEN LeafItems(Tail(leaves), correction, topn, st)
             ELSE LET top == Append(st.top,
                                [key |-> leaf.key, value |-> leaf.value,
                                 correction |-> correction, is_leaf |-> TRUE])
                  IN  LeafItems(Tail(leaves), correction, topn,
                          [top |-> top, keys |-> st.keys \cup {leaf.key},
                           done |-> Len(top) >= topn])

RECURSIVE LeavesOfItems(_, _, _)
\* lines 473-494: the completions
LeavesOfItems(items, topn, st) ==
    IF items = <<>> \/ st.done THEN st
    ELSE LeavesOfItems(Tail(items), topn,
             LeafItems(Head(items).leaves, Head(items).correction, topn, st))

\* lines 450-496: the list search builds from the rows r that __get returned
SearchTop(r, topn) ==
    IF r.status # "ok" THEN r
    ELSE Ok(LeavesOfItems(r.list, topn,
               DirectLoop(r.list, topn,
                          [top |-> <<>>, keys |-> {}, done |-> FALSE])).top)

\* FuzzyMultiDict.search
search(tree, cm, mcv, query, topn) ==
    SearchTop(Lookup(tree, cm, mcv, query, topn, topn), topn)

\* lines 684-687: the value of the first entry of r, or KeyError
FirstValue(r) ==
    IF r.status # "ok" THEN r
    ELSE IF Len(r.list) > 0
         THEN [status |-> "ok", value |-> r.list[1].value, list |-> <<>>]
         ELSE Raise("KeyError")

\* FuzzyMultiDict.__getitem__
getitem(tree, cm, mcv, query) ==
    IF ~IsStr(query) THEN Raise("TypeError")
    ELSE FirstValue(get(tree, cm, mcv, query, NoneInt))

----------------------------------------------------------------------------
(* The dictionary as a state machine *)

Call(op, query, value, topn, budget) ==
    [op |-> op, query |-> query, value |-> value, topn |-> topn,
     budget |-> budget]

NoBudget == Frac(0, 1)

\* budgets a caller passes: valid ones and one above 1
Budgets == {Frac(0, 1), Frac(1, 2), Frac(1, 1)}
BudgetArgs == Budgets \cup {Frac(3, 2)}

Keys == StringsUpTo(MaxKeyLen)
Topns == {NoneInt} \cup (0..MaxTopn)

\* FuzzyMultiDict.__init__ with the default cost model; default_symbol_probability
\* (1e-5) is the smallest positive fixed-point number
Constructed(mcv, f) ==
    /\ prefix_tree = EmptyTree
    /\ update_value = f
    /\ correction_price = CorrectionPrice(Scale, Scale, Scale, Scale)
    /\ symbol_probability = <<>>
    /\ default_symbol_probability = 1
    /\ symbols_distance = <<>>
    /\ default_symbols_distance = Scale
    /\ max_corrections_value = mcv
    /\ history = <<>>
    /\ lookups = 0
    /\ call = Call("init", <<>>, None, NoneInt, mcv)
    /\ ret = Ok(<<>>)

Init == \E mcv \in Budgets, f \in Callbacks : Constructed(mcv, f)

\* an entry of history: a call that changes the dictionary, and whether it
\* succeeded
Logged(op, key, value, ok) == [op |-> op, key |-> key, value |-> value, ok |-> ok]

\* d[key] = value
Assign(key, value) ==
    /\ call' = Call("setitem", key, value, NoneInt, NoBudget)
    /\ IF ~IsStr(key)
       THEN /\ ret' = Raise("TypeError")
            /\ prefix_tree' = prefix_tree
            /\ history' = Append(history, Logged("setitem", key, value, FALSE))
       ELSE LET r == setitem(prefix_tree, update_value, key, value)
            IN  /\ ret' = IF r.raised THEN Raise("CallbackError") ELSE Ok(<<>>)
                /\ prefix_tree' = r.tree
                /\ history' = Append(history,
                                Logged("setitem", key, value, ~r.raised))
    /\ lookups' = 0
    /\ UNCHANGED <<config, max_corrections_value>>

\* d[key] = value, as one of the MaxCalls calls of a behaviour
SetItem(key, value) ==
    /\ Len(history) < MaxCalls
    /\ Assign(key, value)

\* d.set_max_corrections_value(v)
SetMaxCorrectionsValue(v) ==
    /\ Len(history) < MaxCalls
    /\ history' = Append(history, Logged("set_max_corrections_value", <<>>, None,
                                         ValidBudget(v)))
    /\ call' = Call("set_max_corrections_value", <<>>, None, NoneInt, v)
    /\ IF ValidBudget(v)
       THEN /\ max_corrections_value' = v
            /\ ret' = Ok(<<>>)
       ELSE /\ max_corrections_value' = max_corrections_value
            /\ ret' = Raise("ValueError")
    /\ lookups' = 0
    /\ UNCHANGED <<config, prefix_tree>>

\* d.get(query, topn)
Get(query, topn) ==
    /\ lookups < MaxLookupRun
    /\ lookups' = lookups + 1
    /\ call' = Call("get", query, None, topn, max_corrections_value)
    /\ ret' = get(prefix_tree, CostModel, max_corrections_value, query, topn)
    /\ UNCHANGED <<config, prefix_tree, max_corrections_value, history>>

\* d.search(query, topn)
Search(query, topn) ==
    /\ lookups < MaxLookupRun
    /\ lookups' = lookups + 1
    /\ call' = Call("search", query, None, topn, max_corrections_value)
    /\ ret' = search(prefix_tree, CostModel, max_corrections_value, query, topn)
    /\ UNCHANGED <<config, prefix_tree, max_corrections_value, history>>

\* variant of d[query]: the walk creates the nodes it does not find
GetItemCreating(query) ==
    /\ lookups < MaxLookupRun
    /\ lookups' = lookups + 1
    /\ call' = Call("getitem", query, None, NoneInt, max_corrections_value)
    /\ ret' = getitem(prefix_tree, CostModel, max_corrections_value, query)
    /\ prefix_tree' = IF IsStr(query) THEN Walk(prefix_tree, <<>>, query)
                      ELSE prefix_tree
    /\ UNCHANGED <<config, max_corrections_value, history>>

\* d[query]
GetItem(query) ==
    /\ lookups < MaxLookupRun
    /\ lookups' = lookups + 1
    /\ call' = Call("getitem", query, None, NoneInt, max_corrections_value)
    /\ ret' = getitem(prefix_tree, CostModel, max_corrections_value, query)
    /\ UNCHANGED <<config, prefix_tree, max_corrections_value, history>>

Next ==
    \/ \E key \in Keys \cup {NotAString}, value \in Values : SetItem(key, value)
    \/ \E v \in BudgetArgs : SetMaxCorrectionsValue(v)
    \/ \E query \in Keys, topn \in Topns : Get(query, topn)
    \/ \E query \in Keys, topn \in 0..MaxTopn : Search(query, topn)
    \/ \E query \in Keys \cup {NotAString} : GetItem(query)

Spec == Init /\ [][Next]_vars

----------------------------------------------------------------------------
(* Insertions only: every callback, None among the inserted values *)

InsertValues == Values \cup {None}

InitInsert == \E f \in InsertCallbacks : Constructed(Frac(0, 1), f)

NextInsert ==
    \E key \in Keys \cup {NotAString}, value \in InsertValues :
        /\ Len(history) < MaxInsertCalls
        /\ Assign(key, value)

SpecInsert == InitInsert /\ [][NextInsert]_vars

----------------------------------------------------------------------------
(* Lookups over longer keys: the dictionary after construction with the    *)
(* default merge and up to MaxFuzzyInserts insertions, then one lookup.    *)

\* insertions made before the lookup
MaxFuzzyInserts == 2

FuzzyKeys == StringsUpTo(MaxFuzzyLen)
FuzzyBudgets == {Frac(1, 4), Frac(1, 2), Frac(1, 1)}
\* the value stored by the i-th insertion: a truthy one, then a falsy one
FuzzyValue(i) == IF i % 2 = 1 THEN "x" ELSE ""

RECURSIVE KeySeqs(_)
KeySeqs(n) ==
    IF n = 0 THEN {<<>>}
    ELSE KeySeqs(n - 1) \cup
         {Append(ks, k) : ks \in {s \in KeySeqs(n - 1) : Len(s) = n - 1},
                          k \in FuzzyKeys}

RECURSIVE Inserts(_)
\* the insert calls d[ks[i]] = FuzzyValue(i), in order
Inserts(ks) ==
    IF ks = <<>> THEN <<>>
    ELSE Append(Inserts(Take(ks, Len(ks) - 1)),
                Logged("setitem", ks[Len(ks)], FuzzyValue(Len(ks)), TRUE))

RECURSIVE Built(_, _)
\* the trie after the insert calls hs under the merge callback f
Built(f, hs) ==
    IF hs = <<>> THEN EmptyTree
    ELSE setitem(Built(f, Take(hs, Len(hs) - 1)), f,
                 hs[Len(hs)].key, hs[Len(hs)].value).tree

InitFuzzy ==
    \E mcv \in FuzzyBudgets, ks \in KeySeqs(MaxFuzzyInserts) :
        /\ prefix_tree = Built("replace", Inserts(ks))
        /\ update_value = "replace"
        /\ correction_price = CorrectionPrice(Scale, Scale, Scale, Scale)
        /\ symbol_probability = <<>>
        /\ default_symbol_probability = 1
        /\ symbols_distance = <<>>
        /\ default_symbols_distance = Scale
        /\ max_corrections_value = mcv
        /\ history = Inserts(ks)
        /\ lookups = 0
        /\ call = Call("setitem", <<>>, None, NoneInt, NoBudget)
        /\ ret = Ok(<<>>)

NextFuzzy == \E query \in FuzzyKeys : Get(query, NoneInt)

SpecFuzzy == InitFuzzy /\ [][NextFuzzy]_vars

----------------------------------------------------------------------------
(* Vocabulary of the properties *)

IsLookup == call.op \in {"get", "search", "getitem"}
Stored == StoredKeys(prefix_tree)

\* the keys some successful insert call stored
InsertedKeys ==
    {history[i].key :
        i \in {j \in 1..Len(history) : history[j].op = "setitem" /\ history[j].ok}}

\* the value of the last successful d[k] = v
LastInserted(k) ==
    LET is == {i \in 1..Len(history) : /\ history[i].op = "setitem"
                                        /\ history[i].ok /\ history[i].key = k}
    IN  history[CHOOSE i \in is : \A j \in is : j <= i].value

\* q is k with one symbol replaced by another
Substituted(k, q) ==
    /\ Len(q) = Len(k)
    /\ \E i \in 1..Len(k) : q[i] # k[i] /\ \A j \in 1..Len(k) : j # i => q[j] = k[j]

\* q is k without one of its symbols
Dropped(k, q) ==
    /\ Len(q) + 1 = Len(k)
    /\ \E i \in 1..Len(k) : q = Take(k, i - 1) \o Drop(k, i)

\* q is k with one extra symbol
Added(k, q) == Dropped(q, k)

\* q is k with the different symbols at i, i + 1 swapped
Swapped(k, q, i) ==
    /\ i \in 1..(Len(k) - 1)
    /\ k[i] # k[i + 1]
    /\ q = [k EXCEPT ![i] = k[i + 1], ![i + 1] = k[i]]

RECURSIVE EditsWithin(_, _, _)
\* k is obtained from q by at most c single-symbol edits applied left to right
EditsWithin(q, k, c) ==
    IF q = k THEN TRUE
    ELSE IF q # <<>> /\ k # <<>> /\ Head(q) = Head(k)
         THEN EditsWithin(Tail(q), Tail(k), c)
    ELSE IF c = 0 THEN FALSE
    ELSE \/ q # <<>> /\ EditsWithin(Tail(q), k, c - 1)
         \/ k # <<>> /\ EditsWithin(q, Tail(k), c - 1)
         \/ q # <<>> /\ k # <<>> /\ EditsWithin(Tail(q), Tail(k), c - 1)
         \/ /\ Len(q) >= 2 /\ Len(k) >= 2
            /\ q[1] = k[2] /\ q[2] = k[1]
            /\ EditsWithin(Drop(q, 2), Drop(k, 2), c - 1)

\* c / len <= b for a fraction b
AtMost(c, len, b) == c * b.den <= b.num * len
\* b1 < b2 for fractions
Below(b1, b2) == b1.num * b2.den < b2.num * b1.den

\* the entry found for key k with exactly one correction
FoundWithOne(list, k) ==
    \E e \in {list[i] : i \in 1..Len(list)} : e.key = k /\ Len(e.correction) = 1

EntryKeys(list) == {list[i].key : i \in 1..Len(list)}
Entries(list) == {list[i] : i \in 1..Len(list)}

----------------------------------------------------------------------------
(* Properties *)

\* C1: after d[k] = v under the default merge, for every string key k (the
\* empty key included) and every value v (falsy values included), get(k)
\* returns exactly one entry with key k, value v and no corrections, and d[k]
\* returns v.
C1_RoundTrip ==
    (/\ update_value = "replace"
     /\ call.op \in {"get", "getitem"}
     /\ call.query \in InsertedKeys)
    => IF call.op = "get"
       THEN /\ ret.status = "ok"
            /\ \E e \in Entries(ret.list) :
                  /\ e.key = call.query
                  /\ e.value = LastInserted(call.query)
                  /\ e.correction = <<>>
       ELSE ret.status = "ok" /\ ret.value = LastInserted(call.query)

\* C8: for every string query, the empty string included, get and search
\* return a list and do not raise.
C8_LookupNeverRaises ==
    call.op \in {"get", "search"} => ret.status = "ok"

\* C9: for a string query q, d[q] returns the value of the first entry of
\* get(q) when get(q) has entries, and fails with KeyError and no other error
\* otherwise; a query that is not a string fails with TypeError.
C9_StrictAccessor ==
    call.op = "getitem" =>
        IF ~IsStr(call.query) THEN ret.status = "TypeError"
        ELSE LET r == get(prefix_tree, CostModel, max_corrections_value,
                          call.query, NoneInt)
             IN  IF r.status = "ok" /\ Len(r.list) > 0
                 THEN ret.status = "ok" /\ ret.value = r.list[1].value
                 ELSE ret.status = "KeyError"

\* C10: a d[key] = value that fails, because key is not a string or because
\* the merge callback raises, leaves the trie exactly as it was before the call.
C10_FailedInsertLeavesTrie ==
    [][(call'.op = "setitem" /\ ret'.status # "ok") => prefix_tree' = prefix_tree]_vars

C3_TranspositionFound ==
    (call.op = "get" /\ call.query \notin Stored
     /\ AtMost(1, Len(call.query), max_corrections_value))
    => \A k \in Stored : \A i \in 1..Len(k) :
          Swapped(k, call.query, i)
          => \E e \in Entries(ret.list) :
                /\ e.key = k
                /\ e.value = prefix_tree[k].value
                /\ Len(e.correction) = 1
                /\ e.correction[1].correction = "transposition"

\* C4: every entry get or search returns has a key that some insert call
\* stored and the value currently stored under that key.
C4_EntriesAreStored ==
    (call.op \in {"get", "search"} /\ ret.status = "ok")
    => \A e \in Entries(ret.list) :
          /\ e.key \in InsertedKeys
          /\ e.value = prefix_tree[e.key].value

\* C5, on queries that are not themselves stored keys: get(q) without topn has
\* an entry for every stored key k that is at most c single-symbol edits
\* (insertion, deletion, substitution, adjacent transposition) away from q,
\* with c/len(q) within the budget.
C5_Complete ==
    (call.op = "get" /\ call.topn = NoneInt /\ Len(call.query) > 0
     /\ call.query \notin Stored)
    => \A k \in Stored :
          (\E c \in 0..Len(call.query) :
              /\ AtMost(c, Len(call.query), max_corrections_value)
              /\ EditsWithin(call.query, k, c))
          => k \in EntryKeys(ret.list)

C7_Monotone ==
    (call.op = "get" /\ call.topn = NoneInt /\ ret.status = "ok")
    => \A b2 \in {b \in FuzzyBudgets : Below(max_corrections_value, b)} :
          EntryKeys(ret.list) \subseteq
             EntryKeys(get(prefix_tree, CostModel, b2, call.query, NoneInt).list)

\* a lookup that found a key, where a larger budget finds more keys
C7_Witness ==
    /\ call.op = "get" /\ ret.status = "ok" /\ ret.list # <<>>
    /\ \E e \in Entries(ret.list) : Len(e.correction) >= 1
    /\ \E b2 \in {b \in FuzzyBudgets : Below(max_corrections_value, b)} :
          EntryKeys(get(prefix_tree, CostModel, b2, call.query, NoneInt).list)
             # EntryKeys(ret.list)

----------------------------------------------------------------------------
(* Reconfiguration *)

\* a call of a configuration method with its arguments
ConfigCall(op, args) ==
    [op |-> op, query |-> <<>>, value |-> None, topn |-> NoneInt,
     budget |-> NoBudget, args |-> args]

\* arguments of set_correction_price: prices in and out of [0, 1], and a
\* float in place of the price object
PriceArgs ==
    {[class |-> "CorrectionPrice", price |-> CorrectionPrice(t, d, Scale, i)] :
        t \in {Scale \div 2, Scale + 500}, d \in {0, 0 - 1}, i \in {Scale, 300}}
    \cup {[class |-> "CorrectionPrice",
           price |-> CorrectionPrice(Scale, Scale, 10 * Scale, Scale)]}
    \cup {[class |-> "float", value |-> Scale]}

\* probability tables: str keys of one and two characters and a key that is
\* not a str, probabilities in and out of [0, 1]
ProbabilityTables ==
    { <<>>,
      (<<"a">> :> 500),
      (<<"a">> :> 0) @@ (<<"b">> :> Scale),
      (<<"a">> :> 500) @@ (<<"b">> :> 10 * Scale),
      (<<"a">> :> 500) @@ (<<"a", "b">> :> 200),
      (NotAString :> 500) }

\* distance tables: keys that are pairs of one-character strs, pairs with a
\* longer or non-str member and a triple, distances in and out of [0, 1]
DistanceTables ==
    { <<>>,
      (<<<<"a">>, <<"b">>>> :> 300),
      (<<<<"a">>, <<"b">>>> :> 300) @@ (<<<<"b">>, <<"a">>>> :> 700),
      (<<<<"b">>, <<"a">>>> :> 0) @@ (<<<<"a">>, <<"a">>>> :> Scale),
      (<<<<"a">>, <<"b">>>> :> 10 * Scale),
      (<<<<"a">>, <<"b">>>> :> 300) @@ (<<<<"b">>, <<"b", "a">>>> :> 300),
      (<<<<"a">>, NotAString>> :> 300),
      (<<<<"a">>, <<"b">>, <<"a">>>> :> 300) }

DefaultProbabilities == {1, Scale \div 2, 5 * Scale + 100}
DefaultDistances == {Scale, 0, 0 - 100}

\* d.set_correction_price(arg)
SetCorrectionPrice(arg) ==
    LET r == set_correction_price(correction_price, arg)
    IN  /\ Len(history) < MaxCalls
        /\ call' = ConfigCall("set_correction_price", arg)
        /\ correction_price' = r.price
        /\ ret' = IF r.raised = None THEN Ok(<<>>) ELSE Raise(r.raised)
        /\ history' = Append(history, Logged("set_correction_price", <<>>,
                                             None, r.raised = None))
        /\ lookups' = 0
        /\ UNCHANGED <<prefix_tree, update_value, max_corrections_value,
                       symbol_probability, default_symbol_probability,
                       symbols_distance, default_symbols_distance>>

\* d.set_symbols_probability_distances(sp, dsp, sd, dsd)
SetSymbolsProbabilityDistances(sp, dsp, sd, dsd) ==
    LET r == set_symbols_probability_distances(
                 [prob |-> symbol_probability,
                  dprob |-> default_symbol_probability,
                  dist |-> symbols_distance,
                  ddist |-> default_symbols_distance], sp, dsp, sd, dsd)
    IN  /\ Len(history) < MaxCalls
        /\ call' = ConfigCall("set_symbols_probability_distances",
                        [symbol_probability |-> sp,
                         default_symbol_probability |-> dsp,
                         symbols_distance |-> sd,
                         default_symbols_distance |-> dsd])
        /\ symbol_probability' = r.prob
        /\ default_symbol_probability' = r.dprob
        /\ symbols_distance' = r.dist
        /\ default_symbols_distance' = r.ddist
        /\ ret' = IF r.raised = None THEN Ok(<<>>) ELSE Raise(r.raised)
        /\ history' = Append(history,
                          Logged("set_symbols_probability_distances", <<>>,
                                 None, r.raised = None))
        /\ lookups' = 0
        /\ UNCHANGED <<prefix_tree, update_value, max_corrections_value,
                       correction_price>>

InitConfig == Constructed(Frac(1, 1), "replace")

NextConfig ==
    \/ \E arg \in PriceArgs : SetCorrectionPrice(arg)
    \/ \E sp \in ProbabilityTables, dsp \in DefaultProbabilities,
          sd \in DistanceTables, dsd \in DefaultDistances :
            SetSymbolsProbabilityDistances(sp, dsp, sd, dsd)
    \/ \E v \in BudgetArgs : SetMaxCorrectionsValue(v)

SpecConfig == InitConfig /\ [][NextConfig]_vars

----------------------------------------------------------------------------
(* Leaf enumeration on the tries of up to MaxLeafKeys keys *)

LeafKeys == StringsUpTo(MaxLeafKeyLen)

\* a negative limit, zero, and the positive ones
LeafLimits == {0 - 2} \cup (0..MaxLimit)

RECURSIVE LeafKeySeqs(_)
LeafKeySeqs(n) ==
    IF n = 0 THEN {<<>>}
    ELSE LeafKeySeqs(n - 1) \cup
         {Append(ks, k) : ks \in {s \in LeafKeySeqs(n - 1) : Len(s) = n - 1},
                          k \in LeafKeys}

InitLeaves ==
    \E ks \in LeafKeySeqs(MaxLeafKeys) :
        /\ prefix_tree = Built("replace", Inserts(ks))
        /\ update_value = "replace"
        /\ correction_price = CorrectionPrice(Scale, Scale, Scale, Scale)
        /\ symbol_probability = <<>>
        /\ default_symbol_probability = 1
        /\ symbols_distance = <<>>
        /\ default_symbols_distance = Scale
        /\ max_corrections_value = Frac(0, 1)
        /\ history = Inserts(ks)
        /\ lookups = 0
        /\ call = Call("setitem", <<>>, None, NoneInt, NoBudget)
        /\ ret = Ok(<<>>)

\* self.__get_node_leaves(node, path, topn) with path the key of node
GetNodeLeaves(node, topn) ==
    /\ lookups < MaxLookupRun
    /\ lookups' = lookups + 1
    /\ call' = Call("get_node_leaves", node, None, topn, max_corrections_value)
    /\ ret' = Ok(get_node_leaves(prefix_tree, node, node, topn))
    /\ UNCHANGED <<config, prefix_tree, max_corrections_value, history>>

NextLeaves ==
    \E node \in DOMAIN prefix_tree, topn \in LeafLimits :
        GetNodeLeaves(node, topn)

SpecLeaves == InitLeaves /\ [][NextLeaves]_vars

----------------------------------------------------------------------------
(* search on the tries of up to MaxLeafKeys keys *)

NextPrefix ==
    \E query \in LeafKeys, topn \in 1..MaxLimit : Search(query, topn)

SpecPrefix == InitLeaves /\ [][NextPrefix]_vars

----------------------------------------------------------------------------
(* The wave loop of __get, one wave per step *)

\* a lookup inside the while loop: the rows of the next wave, the memo
\* table and the result table
Running(rows, processed, result) ==
    [status |-> "running", value |-> None, list |-> <<>>,
     rows |-> rows, processed |-> processed, result |-> result]

\* __get up to the while loop (lines 523-555): the result of the short
\* circuit, or the first wave
Begin(tree, query, topn, topn_leaves) ==
    LET w == apply_string(tree, <<>>, query, 0)
    IN  IF w.position = Len(query)
           /\ (tree[w.node].value # None \/ TruthyInt(topn_leaves))
        THEN Lookup(tree, CostModel, max_corrections_value, query, topn,
                    topn_leaves)
        ELSE Running(<<[position |-> w.position,
                        path |-> Take(query, w.position),
                        node |-> w.node, correction |-> <<>>],
                       [position |-> 0, path |-> <<>>, node |-> <<>>,
                        correction |-> <<>>]>>,
                     (<<w.position, Take(query, w.position)>> :> 0)
                         @@ (<<0, <<>>>> :> 0),
                     <<>>)

\* lines 639-644: after a wave st, leave the loop or go on
AfterWave(st, topn, topn_leaves) ==
    IF st.raised THEN Raise("ZeroDivisionError")
    ELSE IF st.rows = <<>>
         THEN Ok(prepare_result(st.result, topn, topn_leaves))
         ELSE Running(st.rows, st.processed, st.result)

\* one iteration of the while loop of lines 557-642 on the lookup run
Wave(tree, cm, mcv, query, topn, topn_leaves, run) ==
    AfterWave(ProcessRows([tree |-> tree, cm |-> cm, mcv |-> mcv,
                           query |-> query, topn_leaves |-> topn_leaves],
                          [rows |-> <<>>, processed |-> run.processed,
                           result |-> run.result, raised |-> FALSE],
                          run.rows),
              topn, topn_leaves)

\* what the caller receives once __get has returned r: get passes it on,
\* search builds its list from it
Returned(op, topn, r) ==
    IF op = "search" /\ r.status # "running" THEN SearchTop(r, topn) ELSE r

\* topn_leaves of the __get call that op makes
LeavesOf(op, topn) == IF op = "search" THEN topn ELSE NoneInt

\* d.get(query) or d.search(query, topn) enters __get
StartLookup(op, query, topn) ==
    /\ ret.status # "running"
    /\ lookups < MaxLookupRun
    /\ lookups' = lookups + 1
    /\ call' = Call(op, query, None, topn, max_corrections_value)
    /\ ret' = Returned(op, topn,
                  Begin(prefix_tree, query, topn, LeavesOf(op, topn)))
    /\ UNCHANGED <<config, prefix_tree, max_corrections_value, history>>

\* the while loop processes one wave
WaveStep ==
    /\ ret.status = "running"
    /\ ret' = Returned(call.op, call.topn,
                  Wave(prefix_tree, CostModel, max_corrections_value,
                       call.query, call.topn, LeavesOf(call.op, call.topn),
                       ret))
    /\ UNCHANGED <<config, prefix_tree, max_corrections_value, history,
                   lookups, call>>

WaveQueries == LeafKeys \ {<<>>}

InitWaves ==
    \E mcv \in Budgets, ks \in LeafKeySeqs(MaxFuzzyInserts) :
        /\ prefix_tree = Built("replace", Inserts(ks))
        /\ update_value = "replace"
        /\ correction_price = CorrectionPrice(Scale, Scale, Scale, Scale)
        /\ symbol_probability = <<>>
        /\ default_symbol_probability = 1
        /\ symbols_distance = <<>>
        /\ default_symbols_distance = Scale
        /\ max_corrections_value = mcv
        /\ history = Inserts(ks)
        /\ lookups = 0
        /\ call = Call("setitem", <<>>, None, NoneInt, NoBudget)
        /\ ret = Ok(<<>>)

NextWaves ==
    \/ \E query \in WaveQueries : StartLookup("get", query, NoneInt)
    \/ \E query \in WaveQueries, topn \in 1..MaxTopn :
          StartLookup("search", query, topn)
    \/ WaveStep

SpecWaves == InitWaves /\ [][NextWaves]_vars

----------------------------------------------------------------------------
(* Insertion *)

\* the value stored at k, None when there is none
ValueAt(k) == IF k \in DOMAIN prefix_tree THEN prefix_tree[k].value ELSE None

\* the values of the successful d[k] = v, in the order of the calls
InsertedUnder(k) ==
    LET calls == SelectSeq(history,
                     LAMBDA h : h.op = "setitem" /\ h.ok /\ h.key = k)
    IN  [i \in 1..Len(calls) |-> calls[i].value]

RECURSIVE FoldMerge(_, _, _)
\* merge(... merge(merge(acc, v1), v2) ..., vn)
FoldMerge(f, acc, vs) ==
    IF vs = <<>> THEN acc
    ELSE FoldMerge(f, UpdateValue(f, acc, Head(vs)).value, Tail(vs))

\* C11: after any sequence of insertions the value at every key k is the
\* left fold of the merge function, from "absent", over the values
\* successfully inserted under k in call order; with the default merge it is
\* the last inserted value.
C11_MergeFold ==
    \A k \in Keys :
        /\ ValueAt(k) = FoldMerge(update_value, None, InsertedUnder(k))
        /\ (update_value = "replace" /\ InsertedUnder(k) # <<>>)
              => ValueAt(k) = InsertedUnder(k)[Len(InsertedUnder(k))]

\* a key inserted twice with different values under a merge that keeps the
\* first one
C11_Witness ==
    /\ update_value = "keep_first"
    /\ call.op = "setitem" /\ ret.status = "ok"
    /\ Len(InsertedUnder(call.query)) >= 2
    /\ InsertedUnder(call.query)[1] = "x"
    /\ call.value = ""
    /\ ValueAt(call.query) = "x"

\* C12: a node of the trie holds a value if and only if some successfully
\* inserted key ends at that node.
C12_ValuedIffInserted ==
    \A n \in DOMAIN prefix_tree :
        (prefix_tree[n].value # None) <=> (n \in InsertedKeys)

----------------------------------------------------------------------------
(* search *)

IsSearch == call.op = "search" /\ ret.status = "ok"

\* the untruncated ranked list of matches of the query of the current call
Matches ==
    get(prefix_tree, CostModel, max_corrections_value, call.query, NoneInt).list

\* C13: search(q, topN) returns at most topN entries, for every topN >= 0.
C13_SearchAtMostTopn == IsSearch => Len(ret.list) <= call.topn

\* C14: in search(q, topN) a completion (is_leaf) is emitted only if fewer
\* than topN valued nodes match q within budget, and every match of q comes
\* before it as a direct entry.
C14_DirectBeforeCompletions ==
    IsSearch =>
        \A i \in 1..Len(ret.list) :
            ret.list[i].is_leaf =>
                /\ Cardinality(EntryKeys(Matches)) < call.topn
                /\ \A k \in EntryKeys(Matches) :
                      \E j \in 1..(i - 1) :
                          ret.list[j].key = k /\ ~ret.list[j].is_leaf

----------------------------------------------------------------------------
(* Result lists *)

IsGet == call.op = "get" /\ ret.status = "ok"

\* C15: no two entries of one result of get refer to the same stored key:
\* the keys of the entries are pairwise different, and there are no more
\* entries than stored keys.
C15_NoDuplicates ==
    IsGet =>
        /\ \A i, j \in 1..Len(ret.list) :
              ret.list[i].key = ret.list[j].key => i = j
        /\ Len(ret.list) <= Cardinality(Stored)

RECURSIVE TotalScore(_)
\* the sum of the scores of a list of corrections
TotalScore(cs) == IF cs = <<>> THEN 0 ELSE Head(cs).score + TotalScore(Tail(cs))

\* C16: the list get(q) returns is in non-decreasing order of the total
\* score of the entries' corrections, so its first entry has the least total
\* score of all.
C16_Ranked ==
    IsGet =>
        \A i, j \in 1..Len(ret.list) :
            i < j => TotalScore(ret.list[i].correction)
                        <= TotalScore(ret.list[j].correction)

\* a result whose entries differ in total score
C16_Witness ==
    /\ IsGet /\ Len(ret.list) >= 3
    /\ TotalScore(ret.list[1].correction)
          < TotalScore(ret.list[Len(ret.list)].correction)
    /\ Len(ret.list[1].correction) >= 1

\* the first n elements of list, all of them when it is shorter
FirstN(list, n) == [i \in 1..(IF n < Len(list) THEN n ELSE Len(list)) |-> list[i]]

\* C17: for every count n >= 0, get(q, topn = n) is the first
\* min(n, len(get(q))) entries of the untruncated list get(q).
C17_TopnPrefix ==
    (IsGet /\ call.topn >= 0) => ret.list = FirstN(Matches, call.topn)

----------------------------------------------------------------------------
(* Leaf enumeration *)

IsLeaves == call.op = "get_node_leaves" /\ ret.status = "ok"

\* s is a proper prefix of k
ProperPrefix(s, k) ==
    Len(s) < Len(k) /\ \A i \in 1..Len(s) : s[i] = k[i]

\* the valued nodes strictly below node
ValuedBelow(node) == {k \in Stored : ProperPrefix(node, k)}

\* k1 comes before k2 in lexicographic order
LexLess(k1, k2) ==
    \/ ProperPrefix(k1, k2)
    \/ \E i \in 1..Len(k1) :
          /\ i <= Len(k2)
          /\ \A j \in 1..(i - 1) : k1[j] = k2[j]
          /\ Ord(k1[i]) < Ord(k2[i])

\* C18: for every node and every limit the leaf enumerator returns at most
\* limit entries, and none when limit <= 0.
C18_LeafLimit ==
    IsLeaves => Len(ret.list) <= (IF call.topn <= 0 THEN 0 ELSE call.topn)

\* C19: when limit is at least the number of valued nodes strictly below
\* the node, the enumerator returns each of them exactly once, with its full
\* key and stored value, in lexicographic key order, and nothing else.
C19_FullLeaves ==
    (IsLeaves /\ call.topn >= Cardinality(ValuedBelow(call.query))) =>
        /\ Len(ret.list) = Cardinality(ValuedBelow(call.query))
        /\ EntryKeys(ret.list) = ValuedBelow(call.query)
        /\ \A i \in 1..Len(ret.list) :
              ret.list[i].value = prefix_tree[ret.list[i].key].value
        /\ \A i, j \in 1..Len(ret.list) :
              i < j => LexLess(ret.list[i].key, ret.list[j].key)

\* three leaves below a node whose children were created in descending
\* order, one of them under a valueless node and one with a falsy value
C19_Witness ==
    /\ IsLeaves /\ Len(ret.list) = 3
    /\ call.topn = 3
    /\ prefix_tree[call.query].children = <<"b", "a">>
    /\ \E n \in DOMAIN prefix_tree :
          ProperPrefix(call.query, n) /\ prefix_tree[n].value = None
    /\ \E i \in 1..3 : ret.list[i].value = ""

----------------------------------------------------------------------------
(* Reconfiguration *)

ConfigOps == {"set_correction_price", "set_symbols_probability_distances",
              "set_max_corrections_value"}

\* x is a number of [0, 1]
InUnit(x) == x >= 0 /\ x <= Scale

\* s is a str of one character
OneChar(s) == s # NotAString /\ Len(s) = 1

\* k is a pair of one-character strs
PairOfChars(k) == Len(k) = 2 /\ OneChar(k[1]) /\ OneChar(k[2])

\* the arguments of the configuration call c are ones the claim rejects
Rejected(c) ==
    CASE c.op = "set_correction_price" ->
            \/ c.args.class # "CorrectionPrice"
            \/ \E w \in {c.args.price.transposition, c.args.price.deletion,
                          c.args.price.substitution, c.args.price.insertion} :
                  ~InUnit(w)
      [] c.op = "set_symbols_probability_distances" ->
            \/ ~InUnit(c.args.default_symbol_probability)
            \/ ~InUnit(c.args.default_symbols_distance)
            \/ \E k \in DOMAIN c.args.symbol_probability :
                  ~OneChar(k) \/ ~InUnit(c.args.symbol_probability[k])
            \/ \E k \in DOMAIN c.args.symbols_distance :
                  ~PairOfChars(k) \/ ~InUnit(c.args.symbols_distance[k])
      [] c.op = "set_max_corrections_value" ->
            ~(c.budget.num >= 0 /\ c.budget.num <= c.budget.den)

\* the settings are the ones the successful configuration call c installs:
\* the given price, the given tables and defaults (each given pair of the
\* distance table and its mirror image, nothing else), the given budget
Installs(c, price, prob, dprob, dist, ddist, budget) ==
    CASE c.op = "set_correction_price" -> price = c.args.price
      [] c.op = "set_symbols_probability_distances" ->
            LET sp == c.args.symbol_probability
                sd == c.args.symbols_distance
            IN  /\ dprob = c.args.default_symbol_probability
                /\ ddist = c.args.default_symbols_distance
                /\ DOMAIN prob = {k[1] : k \in DOMAIN sp}
                /\ \A k \in DOMAIN sp : prob[k[1]] = sp[k]
                /\ \A k \in DOMAIN sd : dist[<<k[1][1], k[2][1]>>] = sd[k]
                /\ \A q \in DOMAIN dist :
                      \/ <<<<q[1]>>, <<q[2]>>>> \in DOMAIN sd
                      \/ /\ <<<<q[2]>>, <<q[1]>>>> \in DOMAIN sd
                         /\ dist[q] = sd[<<<<q[2]>>, <<q[1]>>>>]
      [] c.op = "set_max_corrections_value" -> budget = c.budget

C21_SymmetricDistance ==
    \A x, y \in Symbols :
        /\ Distance(CostModel, x, y) = Distance(CostModel, y, x)
        /\ Distance(CostModel, x, x) = 0

----------------------------------------------------------------------------
(* Determinism *)

\* the insert calls of history in the opposite order
Reversed(hs) == [i \in 1..Len(hs) |-> hs[Len(hs) + 1 - i]]

\* the insert calls of history store pairwise different keys
DistinctInserts ==
    \A i, j \in 1..Len(history) : history[i].key = history[j].key => i = j

\* C22: the ordered list get(q) returns depends on the stored key-to-value
\* mapping, the cost model and the budget only: a dictionary holding the same
\* pairs, inserted in the opposite order, returns the identical list.
C22_OrderIndependent ==
    (IsGet /\ DistinctInserts) =>
        ret = get(Built("replace", Reversed(history)), CostModel,
                  max_corrections_value, call.query, NoneInt)

----------------------------------------------------------------------------
(* Exact hit and prefix completion *)

\* C23: when the query is itself a stored key, get returns exactly one
\* entry, with the query as key, the value stored under it and no
\* corrections, whatever other stored keys lie within the budget.
C23_ExactHit ==
    (IsGet /\ call.query \in Stored) =>
        /\ Len(ret.list) = 1
        /\ ret.list[1].key = call.query
        /\ ret.list[1].value = prefix_tree[call.query].value
        /\ ret.list[1].correction = <<>>

\* s is k or a proper prefix of k
PrefixOf(s, k) == s = k \/ ProperPrefix(s, k)

\* the stored keys that have q as a prefix
Completions(q) == {k \in Stored : PrefixOf(q, k)}

\* C24: when the exact walk consumes the whole query q and topN >= 1,
\* search(q, topN) returns the min(topN, m) lexicographically smallest of the
\* m stored keys that have q as a prefix, in lexicographic order, each with
\* its stored value and no corrections, is_leaf false for q itself only.
C24_PrefixCompletion ==
    (IsSearch /\ call.topn >= 1 /\ call.query \in DOMAIN prefix_tree) =>
        /\ Len(ret.list) = (IF call.topn < Cardinality(Completions(call.query))
                            THEN call.topn
                            ELSE Cardinality(Completions(call.query)))
        /\ EntryKeys(ret.list) \subseteq Completions(call.query)
        /\ \A k \in Completions(call.query) \ EntryKeys(ret.list) :
              \A e \in Entries(ret.list) : LexLess(e.key, k)
        /\ \A i, j \in 1..Len(ret.list) :
              i < j => LexLess(ret.list[i].key, ret.list[j].key)
        /\ \A e \in Entries(ret.list) :
              /\ e.value = prefix_tree[e.key].value
              /\ e.correction = <<>>
              /\ e.is_leaf = (e.key # call.query)

----------------------------------------------------------------------------
(* Edit distance *)

Least(S) == CHOOSE n \in S : \A m \in S : n <= m

RECURSIVE Alignment(_, _, _, _)
\* the optimal-string-alignment distance of the first i symbols of a and the
\* first j symbols of b
Alignment(a, b, i, j) ==
    IF i = 0 THEN j
    ELSE IF j = 0 THEN i
    ELSE Least(
           {Alignment(a, b, i - 1, j) + 1,
            Alignment(a, b, i, j - 1) + 1,
            Alignment(a, b, i - 1, j - 1) + (IF a[i] = b[j] THEN 0 ELSE 1)}
           \cup (IF i > 1 /\ j > 1 /\ a[i] = b[j - 1] /\ a[i - 1] = b[j]
                 THEN {Alignment(a, b, i - 2, j - 2) + 1}
                 ELSE {}))

\* the least number of insertions, deletions, substitutions and adjacent
\* transpositions that turn a into b
EditDistance(a, b) == Alignment(a, b, Len(a), Len(b))

\* C25: every entry get(q) returns carries as many corrections as the
\* optimal-string-alignment distance between q and the entry's key.
C25_FewestCorrections ==
    IsGet => \A e \in Entries(ret.list) :
                Len(e.correction) = EditDistance(call.query, e.key)

----------------------------------------------------------------------------
(* Termination of the wave loop *)

InLoop == ret.status = "running"

\* the rows queued by the wave just processed: none is a search state
\* (position, path) queued before, in an earlier wave or earlier in this one,
\* unless it now has strictly fewer corrections
QueuedAfresh ==
    (InLoop /\ InLoop') =>
        \A i \in 1..Len(ret'.rows) :
            /\ <<ret'.rows[i].position, ret'.rows[i].path>> \in DOMAIN ret.processed
                  => Len(ret'.rows[i].correction)
                        < ret.processed[<<ret'.rows[i].position,
                                          ret'.rows[i].path>>]
            /\ \A j \in 1..(i - 1) :
                  (/\ ret'.rows[j].position = ret'.rows[i].position
                   /\ ret'.rows[j].path = ret'.rows[i].path)
                  => Len(ret'.rows[i].correction) < Len(ret'.rows[j].correction)

\* the progress a row has made: symbols of the query consumed plus
\* corrections spent
Progress(row) == row.position + Len(row.correction)

\* the least progress among the rows of a wave
LeastProgress(rows) ==
    Least({Progress(rows[i]) : i \in 1..Len(rows)})

\* no row of a running lookup is past the end of the query or carries more
\* corrections than the query has symbols, so no row's progress exceeds
\* twice the length of the query
ProgressBounded(run, query) ==
    /\ run.rows # <<>>
    /\ \A i \in 1..Len(run.rows) :
          /\ run.rows[i].position <= Len(query)
          /\ Len(run.rows[i].correction) <= Len(query)

\* C26: for every trie, non-empty query and budget in [0, 1] the wave loop of
\* get / search returns: the progress of the rows of a wave is bounded by
\* twice the length of the query and the least progress grows with every
\* wave, so a wave that queues nothing is reached after at most
\* 2 * len(query) + 1 waves, and the call then returns a list; and no search
\* state (position, path) is queued again unless with strictly fewer
\* corrections than before.
C26_Terminates ==
    [][/\ InLoop' => ProgressBounded(ret', call'.query)
       /\ (InLoop /\ InLoop') =>
             LeastProgress(ret'.rows) > LeastProgress(ret.rows)
       /\ (InLoop /\ ~InLoop') => ret'.status = "ok"
       /\ QueuedAfresh
    ]_vars

\* a lookup in its third wave or later, with an entry already found
C26_Witness ==
    /\ InLoop
    /\ ret.result # <<>>
    /\ \E i \in 1..Len(ret.rows) : Len(ret.rows[i].correction) >= 2
    /\ Len(call.query) = MaxLeafKeyLen

----------------------------------------------------------------------------
(* Frame of the lookups *)

LookupOps == {"get", "search", "getitem"}

====
